---- MODULE Spec2Model ----
(***************************************************************************)
(* The interactive feedback dialog (feedback_ui.py): the FeedbackUI        *)
(* window, its FeedbackTextEdit attachment handling, the command it can    *)
(* run with its two pipe reader threads and status timer, kill_tree, and   *)
(* the result run() returns; feedback_ui, which hands the result on; the   *)
(* window's theme, stay-on-top and language preferences; and the           *)
(* I18NManager of i18n.py.                                                 *)
(*                                                                         *)
(* Text is a sequence of tokens: a token is one character (" ", "\n",      *)
(* "a"), one output line's payload, one translated message or one          *)
(* placeholder.  Python's None is the empty sequence <<>>, a value v that  *)
(* may be None is <<v>>.  Process ids are 1..MaxProcs; 0 is "no process"   *)
(* (self.process is None) and, as a parent id, the dialog itself.  An       *)
(* attribute no assignment has reached yet and a settings key nothing was  *)
(* saved under are <<>> as well.                                           *)
(***************************************************************************)
EXTENDS Integers, Sequences, FiniteSets, TLC

(***************************************************************************)
(* Bounds of the model.                                                    *)
(***************************************************************************)
MaxProcs == 2   \* processes the commands and their descendants may create
MaxLines == 2   \* output lines the commands write in total
MaxEdits == 2   \* user operations on the text box and the attachments
MaxText == 4    \* tokens the text box holds

(***************************************************************************)
(* Program constants.                                                      *)
(***************************************************************************)
MaxImages == 5
MaxTextFiles == 5
ImageSizeLimit == 10 * 1024 * 1024
TextSizeLimit == 5 * 1024 * 1024
SIGKILL == 9

Platforms == {"darwin", "linux", "win32"}
Streams == {"stdout", "stderr"}
ExitCodes == {0, 1}
Pids == 1..MaxProcs
INITPID == MaxProcs + 1     \* the init process orphans are reparented to

(***************************************************************************)
(* Strings.                                                                *)
(***************************************************************************)
Whitespace == {" ", "\n"}

RECURSIVE LStrip(_)
LStrip(s) ==
    IF s # <<>> /\ Head(s) \in Whitespace THEN LStrip(Tail(s)) ELSE s

RECURSIVE RStrip(_)
RStrip(s) ==
    IF s # <<>> /\ s[Len(s)] \in Whitespace
    THEN RStrip(SubSeq(s, 1, Len(s) - 1))
    ELSE s

\* str.strip()
Strip(s) == LStrip(RStrip(s))

\* "".join(list)
RECURSIVE Join(_)
Join(list) ==
    IF list = <<>> THEN <<>> ELSE Head(list) \o Join(Tail(list))

\* str.replace(old, "") for a one-token old
RECURSIVE RemoveToken(_, _)
RemoveToken(s, tok) ==
    IF s = <<>> THEN <<>>
    ELSE IF Head(s) = tok THEN RemoveToken(Tail(s), tok)
    ELSE <<Head(s)>> \o RemoveToken(Tail(s), tok)

\* the length of the longest prefix of s made of whitespace
RECURSIVE WhitespaceRun(_)
WhitespaceRun(s) ==
    IF s # <<>> /\ Head(s) \in Whitespace THEN 1 + WhitespaceRun(Tail(s)) ELSE 0

NewlinesIn(s) == Cardinality({i \in 1..Len(s) : s[i] = "\n"})

\* re.sub(r'\n\s*\n\s*\n', '\n\n', s): leftmost, greedy, non-overlapping.
\* A match starts at a newline whose whitespace run holds three newlines or
\* more and ends at the last newline of that run.
RECURSIVE CollapseNewlines(_)
CollapseNewlines(s) ==
    IF s = <<>> THEN <<>>
    ELSE LET run == SubSeq(s, 1, WhitespaceRun(s))
             last == IF NewlinesIn(run) = 0 THEN 0
                     ELSE CHOOSE i \in 1..Len(run) :
                            /\ run[i] = "\n"
                            /\ \A j \in (i + 1)..Len(run) : run[j] # "\n"
         IN IF Head(s) = "\n" /\ NewlinesIn(run) >= 3
            THEN <<"\n", "\n">> \o CollapseNewlines(SubSeq(s, last + 1, Len(s)))
            ELSE <<Head(s)>> \o CollapseNewlines(Tail(s))

\* QTextEdit.insertPlainText at a cursor position (0 = before the first token)
InsertAt(s, pos, ins) == SubSeq(s, 1, pos) \o ins \o SubSeq(s, pos + 1, Len(s))

\* QTextCursor.positionInBlock(): the distance to the start of the line
PositionInBlock(s, pos) ==
    LET nls == {i \in 1..pos : s[i] = "\n"}
    IN IF nls = {} THEN pos ELSE pos - (CHOOSE i \in nls : \A j \in nls : j <= i)

(***************************************************************************)
(* Inputs: the files the user can drop or pick, the images the clipboard   *)
(* can hold, what the user types, the quick replies and the commands.      *)
(***************************************************************************)
Files ==
    { [stem |-> "a", ext |-> "png", mime |-> "image/png",
       size |-> ImageSizeLimit, format |-> "JPEG"],
      [stem |-> "huge", ext |-> "jpg", mime |-> "image/jpeg",
       size |-> ImageSizeLimit + 1, format |-> "JPEG"],
      [stem |-> "n", ext |-> "py", mime |-> "text/x-python",
       size |-> TextSizeLimit, format |-> ""],
      [stem |-> "big", ext |-> "log", mime |-> "",
       size |-> TextSizeLimit + 1, format |-> ""],
      [stem |-> "x", ext |-> "zip", mime |-> "application/zip",
       size |-> 1, format |-> ""] }

ClipboardFormats == {"JPEG", "PNG"}
TypedTokens == {"a", " ", "\n"}
QuickReplies == {<<"a">>, <<" ", "a">>}
Commands == {"", "make"}

text_extensions == {"py", "log", "txt", "md", "json"}

VARIABLES
    platform,               \* sys.platform
    pc,                     \* where the main thread is: constructor, run()
    kt,                     \* the kill_tree call in progress, if any
    command,                \* command_entry.text()
    run_label,              \* the key of run_button's text
    process,                \* self.process: a pid, 0 for None
    timer_active,           \* status_timer is started
    log_buffer,             \* self.log_buffer
    sigq,                   \* append_log signals queued for the UI thread
    feedback_result,        \* self.feedback_result
    ret,                    \* what run() returned
    pstate, ppid, tree, rc, \* the process table
    pipe,                   \* pipe[r][s]: lines written and not yet read
    rd,                     \* rd[r][s]: the reader thread of that pipe
    written,                \* every line written so far: its command, stream
    text,                   \* feedback_text.toPlainText()
    images,                 \* feedback_text.images
    text_files,             \* feedback_text.text_files
    auto_submit,            \* auto_submit_check.isChecked()
    error_shown,            \* the key of the QMessageBox the last handler showed
    edits,                  \* user operations on the text box followed so far
    log_writer,             \* the thread that last modified the log buffer and widget
    pipe_reader,            \* the thread that last read a pipe
    delivered,              \* delivered[l]: calls of _append_log with line l
    exit_msgs,              \* exit_msgs[p]: 'process exited' messages for p
    theme_mode,             \* self.theme_mode
    is_dark_theme,          \* self.is_dark_theme
    palette,                \* the palette and style sheet apply_theme has set
    theme_timer,            \* theme_timer is started
    system_dark,            \* the operating system shows its dark theme
    saved_theme,            \* QSettings: theme/mode
    stay_on_top,            \* self.stay_on_top
    top_hint,               \* Qt.WindowStaysOnTopHint is among the window flags
    saved_top,              \* QSettings: stay_on_top
    texts,                  \* I18NManager.texts, loaded from i18n.json
    current_language,       \* I18NManager.current_language of the manager in use
    saved_language,         \* QSettings of I18NManager: language
    system_language,        \* what _detect_system_language finds
    language_set,           \* the language set_language has set last
    i18n_ret,               \* the last call of the manager and what it returned
    output_file,            \* feedback_ui's output_file argument
    file_written,           \* the content of the output file
    ui_ret                  \* what feedback_ui returned

themeVars == <<theme_mode, is_dark_theme, palette, system_dark, saved_theme,
               theme_timer>>
topVars == <<stay_on_top, top_hint, saved_top>>
i18nVars == <<texts, current_language, saved_language, system_language,
              language_set, i18n_ret>>
outVars == <<output_file, file_written, ui_ret>>
\* everything but the theme timer, which closeEvent stops
prefRest == <<theme_mode, is_dark_theme, palette, system_dark, saved_theme,
              topVars, i18nVars, outVars>>
prefVars == <<prefRest, theme_timer>>

dialogVars == <<platform, pc, kt, command, run_label,
               process, timer_active, feedback_result, ret>>
uiVars == <<platform, prefVars, pc, kt, command, run_label,
            process, timer_active, feedback_result, ret>>
logVars == <<log_buffer, sigq, log_writer, delivered, exit_msgs>>
osVars == <<pstate, ppid, tree, rc, pipe, rd, written, pipe_reader>>
editVars == <<text, images, text_files, auto_submit, error_shown>>
vars == <<uiVars, logVars, osVars, editVars, edits>>

KtIdle == [pc |-> "idle", caller |-> "", parent |-> 0, todo |-> <<>>, killed |-> <<>>]
KtCall(caller, pid) ==
    [pc |-> "open", caller |-> caller, parent |-> pid, todo |-> <<>>, killed |-> <<>>]

Alive == {"running", "zombie"}     \* the pid exists: psutil can open it
FreePids == {p \in Pids : pstate[p] = "unborn"}
MinOf(S) == CHOOSE x \in S : \A y \in S : x <= y

RECURSIVE SortedSeq(_)
SortedSeq(S) ==
    IF S = {} THEN <<>> ELSE <<MinOf(S)>> \o SortedSeq(S \ {MinOf(S)})

\* psutil.Process.children(recursive=True): the existing processes whose
\* chain of parents leads to the given one
RECURSIVE Descendants(_, _)
Descendants(S, fuel) ==
    LET more == {p \in Pids : pstate[p] \in Alive /\ ppid[p] \in S} \ S
    IN IF fuel = 0 \/ more = {} THEN S ELSE Descendants(S \cup more, fuel - 1)

children(parent) == SortedSeq(Descendants({parent}, MaxProcs) \ {parent})

\* A process ends: it stays a zombie until it is waited for, and its
\* children are handed to init.
DiedState(p) == [pstate EXCEPT ![p] = "zombie"]
DiedPpid(p) == [q \in Pids |-> IF ppid[q] = p THEN INITPID ELSE ppid[q]]

(***************************************************************************)
(* The translated messages and the text of an output line.                 *)
(***************************************************************************)
Message(key, arg) == <<"messages." \o key \o "(" \o arg \o ")">>
LineText(l) == <<"line" \o ToString(l), "\n">>

\* FeedbackUI._append_log: the text joins the log buffer; the log widget,
\* which nothing reads, is shown the same text without its trailing whitespace
AppendLog(buffer, txt) == Append(buffer, txt)

\* The Qt connection of append_log made a direct call: a buggy variant in
\* which the slot runs in the emitting thread.
EmitDirect(l, thread) ==
    /\ log_buffer' = AppendLog(log_buffer, LineText(l))
    /\ log_writer' = thread
    /\ delivered' = [delivered EXCEPT ![l] = @ + 1]
    /\ UNCHANGED <<sigq, exit_msgs>>

\* A buggy variant that emits every line twice.
EmitTwice(l, thread) ==
    /\ sigq' = sigq \o <<l, l>>
    /\ UNCHANGED <<log_buffer, log_writer, delivered, exit_msgs>>

\* self.log_signals.append_log.emit(line) from a reader thread: the receiver
\* lives in the UI thread, so the call is queued for its event loop
Emit(l, thread) ==
    /\ sigq' = Append(sigq, l)
    /\ UNCHANGED <<log_buffer, log_writer, delivered, exit_msgs>>

(***************************************************************************)
(* The I18NManager (i18n.py).  texts maps a category to a language to the  *)
(* entry of that language: a dictionary of texts by key or, for the quick  *)
(* replies, a list.  A text is a sequence of tokens; a token "{name}" is a *)
(* replacement field of str.format.                                        *)
(***************************************************************************)
\* the codes set_language accepts
Languages == {"zh", "en"}
\* i18n.json with every text in both languages
CompleteTexts ==
    [messages |->
        [zh |-> [kind |-> "dict",
                 items |-> [process_exited |-> <<"zh:exited ", "{code}">>,
                            config_saved |-> <<"zh:saved">>]],
         en |-> [kind |-> "dict",
                 items |-> [process_exited |-> <<"en:exited ", "{code}">>,
                            config_saved |-> <<"en:saved">>]]],
     quick_replies |->
        [zh |-> [kind |-> "list", items |-> <<"zh:continue">>],
         en |-> [kind |-> "list", items |-> <<"en:continue">>]]]

\* i18n.json as it may be: complete, the Chinese texts lacking a key, the
\* categories without Chinese texts, the Chinese text naming its field
\* differently
TextsInputs ==
    LET Dict(items) == [kind |-> "dict", items |-> items]
        en == CompleteTexts.messages.en
        quick_replies == CompleteTexts.quick_replies
    IN {CompleteTexts,
        [messages |->
            [zh |-> Dict([config_saved |-> <<"zh:saved">>]), en |-> en],
         quick_replies |-> quick_replies],
        [messages |-> [en |-> en],
         quick_replies |-> [en |-> quick_replies.en]],
        [messages |->
            [zh |-> Dict([process_exited |-> <<"zh:exited ", "{exit_code}">>,
                          config_saved |-> <<"zh:saved">>]),
             en |-> en],
         quick_replies |-> quick_replies]}

\* the replacement fields of the texts and their names
FieldName(tok) ==
    IF tok = "{code}" THEN "code"
    ELSE IF tok = "{exit_code}" THEN "exit_code" ELSE ""

\* what a call of the manager returned: a value, or the exception it raised
\* and the arguments and the current language it was called with
NoCall == [call |-> "", arg |-> <<>>, before |-> <<>>, raised |-> "", value |-> <<>>]
Outcome(call, arg, exception, value) ==
    [call |-> call, arg |-> arg, before |-> current_language,
     raised |-> exception, value |-> value]

\* A buggy constructor that takes the saved value, or "auto", as it is.
StartLanguageUndetected(default_language) ==
    IF default_language = "auto"
    THEN IF saved_language = <<>> THEN "auto" ELSE saved_language[1]
    ELSE default_language

\* I18NManager.__init__: the language a new manager starts in; a saved "auto"
\* is what _detect_system_language finds
StartLanguage(default_language) ==
    IF default_language = "auto"
    THEN LET saved_lang == IF saved_language = <<>>
                           THEN "auto"
                           ELSE saved_language[1]
         IN IF saved_lang = "auto"
            THEN system_language
            ELSE saved_lang
    ELSE default_language

\* i18n.get_text_manager: the global manager, made on first use
get_text_manager ==
    current_language' = IF current_language = <<>>
                        THEN <<StartLanguage("auto")>>
                        ELSE current_language

(***************************************************************************)
(* The theme and the stay-on-top flag of the window.                       *)
(***************************************************************************)
\* FeedbackUI._get_system_theme_is_dark: Linux is taken to be light
_get_system_theme_is_dark ==
    IF platform \in {"darwin", "win32"} THEN system_dark ELSE FALSE

\* FeedbackUI._get_effective_theme
_get_effective_theme(mode) ==
    IF mode = "auto"
    THEN _get_system_theme_is_dark
    ELSE IF mode = "dark" THEN TRUE ELSE FALSE

\* FeedbackUI.apply_theme: the palette and style sheet of the theme
Palette(is_dark) == IF is_dark THEN "dark" ELSE "light"

\* settings.value(key, default)
SettingsValue(saved, default) == IF saved = <<>> THEN default ELSE saved[1]

(***************************************************************************)
(* The initial state: nothing is constructed yet.  The platform and the    *)
(* saved run_command are inputs.  FreshSettings is a first start: the system  *)
(* is light and English, no preference is saved, feedback_ui is not given  *)
(* an output file.                                                         *)
(***************************************************************************)
NoWindowPrefs ==
    /\ theme_mode = "unset"
    /\ is_dark_theme = <<>>
    /\ palette = "unset"
    /\ theme_timer = FALSE
    /\ stay_on_top = <<>>
    /\ top_hint = FALSE
    /\ current_language = <<>>
    /\ language_set = <<>>
    /\ i18n_ret = NoCall
    /\ file_written = <<>>
    /\ ui_ret = <<>>

FreshSettings ==
    /\ system_dark = FALSE
    /\ saved_theme = <<>>
    /\ saved_top = <<>>
    /\ texts = CompleteTexts
    /\ saved_language = <<>>
    /\ system_language = "en"

InitDialog ==
    /\ platform \in Platforms
    /\ pc = "new"
    /\ kt = KtIdle
    /\ command \in Commands
    /\ run_label = "run"
    /\ process = 0
    /\ timer_active = FALSE
    /\ log_buffer = <<>>
    /\ sigq = <<>>
    /\ feedback_result = <<>>
    /\ ret = <<>>
    /\ pstate = [p \in Pids |-> "unborn"]
    /\ ppid = [p \in Pids |-> 0]
    /\ tree = [p \in Pids |-> 0]
    /\ rc = [p \in Pids |-> 0]
    /\ pipe = [p \in Pids |-> [s \in Streams |-> <<>>]]
    /\ rd = [p \in Pids |-> [s \in Streams |-> "none"]]
    /\ written = <<>>
    /\ text = <<>>
    /\ images = <<>>
    /\ text_files = <<>>
    /\ auto_submit = TRUE
    /\ error_shown = ""
    /\ edits = 0
    /\ log_writer = "none"
    /\ pipe_reader = "none"
    /\ delivered = [l \in 1..MaxLines |-> 0]
    /\ exit_msgs = [p \in Pids |-> 0]

Init == InitDialog /\ NoWindowPrefs /\ FreshSettings /\ output_file = <<>>

(***************************************************************************)
(* FeedbackUI._run_command when no process is held: clear the buffer and   *)
(* start the command with its two reader threads and the status timer.     *)
(***************************************************************************)
RunStart ==
    LET p == MinOf(FreePids)
    IN
    /\ log_writer' = "ui"
    /\ UNCHANGED <<sigq, delivered, exit_msgs, rc, pipe, written, pipe_reader>>
    /\ IF command = ""
       THEN /\ log_buffer' = AppendLog(<<>>, Message("enter_command", ""))
            /\ UNCHANGED <<run_label, process, timer_active, pstate, ppid, tree, rd>>
       ELSE LET running == AppendLog(<<>>, Message("command_running", command))
            IN \/ \* subprocess.Popen succeeds
                  /\ FreePids # {}
                  /\ log_buffer' = running
                  /\ run_label' = "stop"
                  /\ process' = p
                  /\ pstate' = [pstate EXCEPT ![p] = "running"]
                  /\ ppid' = [ppid EXCEPT ![p] = 0]
                  /\ tree' = [tree EXCEPT ![p] = p]
                  /\ rd' = [rd EXCEPT ![p] = [s \in Streams |-> "reading"]]
                  /\ timer_active' = TRUE
               \/ \* subprocess.Popen raises
                  /\ log_buffer' = AppendLog(running, Message("command_error", "error"))
                  /\ run_label' = "run"
                  /\ UNCHANGED <<process, timer_active, pstate, ppid, tree, rd>>

(***************************************************************************)
(* FeedbackUI.__init__.  It takes the global text manager first.  Off      *)
(* macOS it then reads self.stay_on_top, to set the window flags, before   *)
(* any assignment to it and raises AttributeError.  On macOS it sets the   *)
(* flags without the stay-on-top hint, loads the saved theme mode and      *)
(* stay_on_top, applies the theme in _create_ui, starts the theme timer in *)
(* auto mode and applies a saved stay_on_top.  The saved                   *)
(* execute_automatically setting is an input of the constructor.           *)
(***************************************************************************)
Construct(execute_automatically) ==
    /\ pc = "new"
    /\ get_text_manager
    /\ UNCHANGED <<platform, kt, command, feedback_result, ret>>
    /\ UNCHANGED <<system_dark, saved_theme, saved_top, outVars>>
    /\ UNCHANGED <<texts, saved_language, system_language, language_set, i18n_ret>>
    /\ UNCHANGED <<editVars, edits>>
    /\ IF platform # "darwin"
       THEN /\ pc' = "ctor_raised"
            /\ UNCHANGED <<theme_mode, is_dark_theme, palette, theme_timer,
                           stay_on_top, top_hint>>
            /\ UNCHANGED <<run_label, process, timer_active, logVars, osVars>>
       ELSE /\ pc' = "constructed"
            /\ LET mode == SettingsValue(saved_theme, "auto")
                   on_top == SettingsValue(saved_top, FALSE)
               IN /\ theme_mode' = mode
                  /\ is_dark_theme' = <<_get_effective_theme(mode)>>
                  /\ palette' = Palette(_get_effective_theme(mode))
                  /\ theme_timer' = (mode = "auto")
                  /\ stay_on_top' = <<on_top>>
                  /\ top_hint' = on_top
            /\ IF execute_automatically
               THEN RunStart
               ELSE UNCHANGED <<run_label, process, timer_active, logVars, osVars>>

(***************************************************************************)
(* FeedbackUI.run up to the event loop: show() and QApplication.exec().    *)
(***************************************************************************)
RunShow ==
    /\ pc = "constructed"
    /\ pc' = "exec"
    /\ UNCHANGED <<platform, prefVars, kt, command, run_label,
                   process, timer_active, feedback_result, ret>>
    /\ UNCHANGED <<logVars, osVars, editVars, edits>>

\* The event loop is dispatching and no handler is running.
UIReady == pc = "exec" /\ kt.pc = "idle"
\* Queued signals and timers are dispatched until exec() returns.
LoopReady == pc \in {"exec", "closed"} /\ kt.pc = "idle"

(***************************************************************************)
(* The Run button or Return in the command entry: _run_command.  With a    *)
(* process held it is the Stop button: kill_tree, then the handle is       *)
(* cleared (StopDone).                                                     *)
(***************************************************************************)
RunCommand ==
    /\ UIReady
    /\ UNCHANGED <<platform, prefVars, pc, command, feedback_result, ret>>
    /\ UNCHANGED <<editVars, edits>>
    /\ IF process # 0
       THEN /\ kt' = KtCall("stop", process)
            /\ UNCHANGED <<run_label, process, timer_active, logVars, osVars>>
       ELSE /\ RunStart
            /\ UNCHANGED kt

StopDone ==
    /\ kt.caller = "stop"
    /\ kt.pc \in {"done", "raised"}
    /\ kt' = KtIdle
    /\ IF kt.pc = "done"
       THEN process' = 0 /\ run_label' = "run"
       ELSE UNCHANGED <<process, run_label>>
    /\ UNCHANGED <<platform, prefVars, pc, command, timer_active,
                   feedback_result, ret>>
    /\ UNCHANGED <<logVars, osVars, editVars, edits>>

\* A buggy message that leaves the exit code out.
ProcessExitedWithoutCode(exit_code) == Message("process_exited", "")

\* get_text("messages", "process_exited", exit_code=exit_code)
ProcessExited(exit_code) == Message("process_exited", ToString(exit_code))

(***************************************************************************)
(* The status timer's tick: _check_process_status.                         *)
(***************************************************************************)
CheckProcessStatus ==
    /\ LoopReady
    /\ timer_active
    /\ UNCHANGED <<platform, prefVars, pc, kt, command, timer_active, feedback_result, ret>>
    /\ UNCHANGED <<sigq, delivered, ppid, tree, rc, pipe, rd, written, pipe_reader>>
    /\ UNCHANGED <<editVars, edits>>
    /\ IF process # 0 /\ pstate[process] # "running"
       THEN /\ pstate' = [pstate EXCEPT ![process] = "gone"]
            /\ log_buffer' = AppendLog(log_buffer, ProcessExited(rc[process]))
            /\ log_writer' = "ui"
            /\ exit_msgs' = [exit_msgs EXCEPT ![process] = @ + 1]
            /\ run_label' = "run"
            /\ process' = 0
       ELSE UNCHANGED <<pstate, log_buffer, log_writer, exit_msgs, run_label, process>>

(***************************************************************************)
(* The event loop delivers one queued append_log signal to _append_log.    *)
(***************************************************************************)
DeliverAppendLog ==
    /\ LoopReady
    /\ sigq # <<>>
    /\ log_buffer' = AppendLog(log_buffer, LineText(Head(sigq)))
    /\ sigq' = Tail(sigq)
    /\ log_writer' = "ui"
    /\ delivered' = [delivered EXCEPT ![Head(sigq)] = @ + 1]
    /\ UNCHANGED <<exit_msgs, uiVars, osVars, editVars, edits>>

\* The Clear button: clear_logs
ClearLogs ==
    /\ UIReady
    /\ log_buffer' = <<>>
    /\ log_writer' = "ui"
    /\ UNCHANGED <<sigq, delivered, exit_msgs, uiVars, osVars, editVars, edits>>

(***************************************************************************)
(* kill_tree(process), one step per call into psutil.  The steps run in    *)
(* the calling thread; the processes themselves go on in between.          *)
(***************************************************************************)
ktRest == <<platform, prefVars, pc, command, run_label, process,
            timer_active, feedback_result, ret>>

\* parent = psutil.Process(process.pid): NoSuchProcess when the pid is gone
KtOpen ==
    /\ kt.pc = "open"
    /\ kt' = [kt EXCEPT !.pc = IF pstate[kt.parent] \in Alive
                                THEN "children" ELSE "raised"]
    /\ UNCHANGED <<ktRest, logVars, osVars, editVars, edits>>

\* parent.children(recursive=True); with the parent gone meanwhile psutil
\* raises NoSuchProcess or finds no child, depending on its version
KtChildren ==
    /\ kt.pc = "children"
    /\ IF pstate[kt.parent] \in Alive
       THEN kt' = [kt EXCEPT !.pc = "kill", !.todo = children(kt.parent)]
       ELSE \/ kt' = [kt EXCEPT !.pc = "raised"]
            \/ kt' = [kt EXCEPT !.pc = "kill"]
    /\ UNCHANGED <<ktRest, logVars, osVars, editVars, edits>>

\* proc.kill() for the next descendant; psutil.Error is swallowed
KtKillChild ==
    /\ kt.pc = "kill"
    /\ kt.todo # <<>>
    /\ LET p == Head(kt.todo)
       IN /\ kt' = [kt EXCEPT !.todo = Tail(@),
                              !.killed = IF pstate[p] \in Alive
                                         THEN Append(@, p) ELSE @]
          /\ IF pstate[p] = "running"
             THEN /\ pstate' = DiedState(p)
                  /\ ppid' = DiedPpid(p)
             ELSE UNCHANGED <<pstate, ppid>>
    /\ UNCHANGED <<rc, tree, pipe, rd, written, pipe_reader>>
    /\ UNCHANGED <<ktRest, logVars, editVars, edits>>

\* parent.kill(); psutil.Error is swallowed; killed.append(parent)
KtKillParent ==
    /\ kt.pc = "kill"
    /\ kt.todo = <<>>
    /\ kt' = [kt EXCEPT !.pc = "terminate", !.killed = Append(@, kt.parent)]
    /\ IF pstate[kt.parent] = "running"
       THEN /\ pstate' = DiedState(kt.parent)
            /\ ppid' = DiedPpid(kt.parent)
            /\ rc' = [rc EXCEPT ![kt.parent] = 0 - SIGKILL]
       ELSE UNCHANGED <<pstate, ppid, rc>>
    /\ UNCHANGED <<tree, pipe, rd, written, pipe_reader>>
    /\ UNCHANGED <<ktRest, logVars, editVars, edits>>

\* the closing loop: terminate() whatever of `killed` is_running() and is
\* still alive
KtTerminate ==
    /\ kt.pc = "terminate"
    /\ kt' = [kt EXCEPT !.pc = "done"]
    /\ LET K == {kt.killed[i] : i \in 1..Len(kt.killed)}
           T == {p \in K : pstate[p] = "running"}
       IN /\ pstate' = [p \in Pids |-> IF p \in T THEN "zombie" ELSE pstate[p]]
          /\ ppid' = [q \in Pids |-> IF ppid[q] \in T THEN INITPID ELSE ppid[q]]
    /\ UNCHANGED <<rc, tree, pipe, rd, written, pipe_reader>>
    /\ UNCHANGED <<ktRest, logVars, editVars, edits>>

KillTree == KtOpen \/ KtChildren \/ KtKillChild \/ KtKillParent \/ KtTerminate

\* kill_tree on a command that started no other process
KillSingle == KtOpen \/ KtChildren \/ KtKillParent \/ KtTerminate

(***************************************************************************)
(* Submitting and closing.                                                 *)
(***************************************************************************)
\* A buggy _submit_feedback that takes the text box as it is.
SubmittedResultUnstripped(txt) ==
    [logs |-> Join(log_buffer),
     interactive_feedback |-> txt,
     images |-> images,
     text_files |-> text_files]

\* The FeedbackResult that _submit_feedback builds from a text box content
SubmittedResult(txt) ==
    [logs |-> Join(log_buffer),
     interactive_feedback |-> Strip(txt),
     images |-> images,
     text_files |-> text_files]

\* FeedbackUI.closeEvent: stop the theme timer and kill the held process
\* tree, then the window closes (CloseDone)
CloseEvent ==
    /\ theme_timer' = FALSE
    /\ IF process # 0
       THEN kt' = KtCall("close", process) /\ UNCHANGED pc
       ELSE pc' = "closed" /\ UNCHANGED kt

CloseDone ==
    /\ kt.caller = "close"
    /\ kt.pc \in {"done", "raised"}
    /\ kt' = KtIdle
    /\ pc' = "closed"
    /\ UNCHANGED <<platform, prefVars, command, run_label, process,
                   timer_active, feedback_result, ret>>
    /\ UNCHANGED <<logVars, osVars, editVars, edits>>

\* The Send button or Ctrl+Enter in the text box: _submit_feedback
SubmitFeedback(via) ==
    /\ UIReady
    /\ feedback_result' = <<SubmittedResult(text)>>
    /\ CloseEvent
    /\ UNCHANGED <<platform, prefRest, command, run_label, process,
                   timer_active, ret>>
    /\ UNCHANGED <<logVars, osVars, editVars, edits>>

\* A quick reply is clicked: _quick_reply_clicked
QuickReplyClicked(reply) ==
    /\ UIReady
    /\ edits < MaxEdits
    /\ edits' = edits + 1
    /\ text' = reply
    /\ IF auto_submit
       THEN /\ feedback_result' = <<SubmittedResult(reply)>>
            /\ CloseEvent
       ELSE UNCHANGED <<feedback_result, pc, kt, theme_timer>>
    /\ UNCHANGED <<platform, prefRest, command, run_label, process,
                   timer_active, ret>>
    /\ UNCHANGED <<images, text_files, auto_submit, error_shown>>
    /\ UNCHANGED <<logVars, osVars>>

\* The auto-submit checkbox
ToggleAutoSubmit ==
    /\ UIReady
    /\ edits < MaxEdits
    /\ edits' = edits + 1
    /\ auto_submit' = ~auto_submit
    /\ UNCHANGED <<text, images, text_files, error_shown>>
    /\ UNCHANGED <<uiVars, logVars, osVars>>

\* The window's close button
CloseWindow ==
    /\ UIReady
    /\ CloseEvent
    /\ UNCHANGED <<platform, prefRest, command, run_label, process,
                   timer_active, feedback_result, ret>>
    /\ UNCHANGED <<logVars, osVars, editVars, edits>>

\* QApplication.exec() returns once the last window is closed.
ExecReturns ==
    /\ pc = "closed"
    /\ kt.pc = "idle"
    /\ pc' = "after_exec"
    /\ UNCHANGED <<platform, prefVars, kt, command, run_label,
                   process, timer_active, feedback_result, ret>>
    /\ UNCHANGED <<logVars, osVars, editVars, edits>>

\* A buggy end of run() that hands back the draft of a dialog that was closed
\* without a submit.
ReturnedResultWithDraft ==
    IF feedback_result = <<>>
    THEN [logs |-> Join(log_buffer),
          interactive_feedback |-> Strip(text),
          images |-> images,
          text_files |-> text_files]
    ELSE feedback_result[1]

\* The end of run(): the submitted result, or an empty one with the logs
ReturnedResult ==
    IF feedback_result = <<>>
    THEN [logs |-> Join(log_buffer),
          interactive_feedback |-> <<>>,
          images |-> <<>>,
          text_files |-> <<>>]
    ELSE feedback_result[1]

\* run() after exec(): kill the held process tree, then return (RunReturn)
RunAfterExec ==
    /\ pc = "after_exec"
    /\ kt.pc = "idle"
    /\ IF process # 0
       THEN kt' = KtCall("run", process) /\ UNCHANGED <<pc, ret>>
       ELSE pc' = "returned" /\ ret' = <<ReturnedResult>> /\ UNCHANGED kt
    /\ UNCHANGED <<platform, prefVars, command, run_label, process,
                   timer_active, feedback_result>>
    /\ UNCHANGED <<logVars, osVars, editVars, edits>>

RunReturn ==
    /\ kt.caller = "run"
    /\ kt.pc \in {"done", "raised"}
    /\ kt' = KtIdle
    /\ IF kt.pc = "done"
       THEN pc' = "returned" /\ ret' = <<ReturnedResult>>
       ELSE pc' = "run_raised" /\ UNCHANGED ret
    /\ UNCHANGED <<platform, prefVars, command, run_label, process,
                   timer_active, feedback_result>>
    /\ UNCHANGED <<logVars, osVars, editVars, edits>>

(***************************************************************************)
(* feedback_ui: construct the dialog, run it and hand the result on.  A    *)
(* Python value is a tagged tree: a str of tokens, an int, a list or a     *)
(* dict of keys and values in insertion order.  json.dump writes it as     *)
(* JSON text, here a sequence of tokens: the punctuation, the number       *)
(* literals and the tokens of the strings, escaped.                        *)
(***************************************************************************)
Py(t, v) == [t |-> t, v |-> v]

\* the dict FeedbackResult(...) builds, with the values the dialog put in
PyResult(result) ==
    LET PyStr(tokens) == Py("str", tokens)
        PyImage(image) ==
            Py("dict", << <<"filename", PyStr(<<image.filename>>)>>,
                          <<"data", PyStr(<<image.data>>)>> >>)
        PyTextFile(text_file) ==
            Py("dict", << <<"filename", PyStr(<<text_file.filename>>)>>,
                          <<"content", PyStr(<<text_file.content>>)>>,
                          <<"path", PyStr(<<text_file.path>>)>>,
                          <<"size", Py("int", text_file.size)>>,
                          <<"encoding", PyStr(<<text_file.encoding>>)>> >>)
    IN Py("dict",
          << <<"logs", PyStr(result.logs)>>,
             <<"interactive_feedback", PyStr(result.interactive_feedback)>>,
             <<"images",
               Py("list", [i \in DOMAIN result.images |->
                              PyImage(result.images[i])])>>,
             <<"text_files",
               Py("list", [i \in DOMAIN result.text_files |->
                              PyTextFile(result.text_files[i])])>> >>)

\* the escapes of a JSON string
RECURSIVE JsonEscapeAll(_)
JsonEscapeAll(tokens) ==
    LET JsonEscape(tok) ==
            IF tok = "\n" THEN <<"\\", "n">>
            ELSE IF tok = "\"" THEN <<"\\", "\"">>
            ELSE IF tok = "\\" THEN <<"\\", "\\">>
            ELSE <<tok>>
    IN IF tokens = <<>>
       THEN <<>>
       ELSE JsonEscape(Head(tokens)) \o JsonEscapeAll(Tail(tokens))

JsonString(tokens) == <<"\"">> \o JsonEscapeAll(tokens) \o <<"\"">>

\* json.dump(value, f)
RECURSIVE JsonDump(_)
RECURSIVE JsonDumpItems(_)
RECURSIVE JsonDumpMembers(_)
JsonDump(value) ==
    IF value.t = "str" THEN JsonString(value.v)
    ELSE IF value.t = "int" THEN <<ToString(value.v)>>
    ELSE IF value.t = "list" THEN <<"[">> \o JsonDumpItems(value.v) \o <<"]">>
    ELSE <<"{">> \o JsonDumpMembers(value.v) \o <<"}">>

JsonDumpItems(items) ==
    IF items = <<>> THEN <<>>
    ELSE JsonDump(Head(items))
            \o (IF Tail(items) = <<>> THEN <<>> ELSE <<",">>)
            \o JsonDumpItems(Tail(items))

JsonDumpMembers(members) ==
    IF members = <<>> THEN <<>>
    ELSE JsonString(<<Head(members)[1]>>) \o <<":">> \o JsonDump(Head(members)[2])
            \o (IF Tail(members) = <<>> THEN <<>> ELSE <<",">>)
            \o JsonDumpMembers(Tail(members))

\* if output_file: a path that is neither None nor empty
TruthyPath(path) == path # <<>> /\ path[1] # ""

\* json.load of the text written: the value it stands for
RECURSIVE ParseString(_, _)
ParseString(toks, acc) ==
    IF Head(toks) = "\""
    THEN [v |-> Py("str", acc), rest |-> Tail(toks)]
    ELSE IF Head(toks) = "\\"
         THEN ParseString(SubSeq(toks, 3, Len(toks)),
                          Append(acc, IF toks[2] = "n" THEN "\n" ELSE toks[2]))
         ELSE ParseString(Tail(toks), Append(acc, Head(toks)))

RECURSIVE ParseValue(_)
RECURSIVE ParseItems(_, _)
RECURSIVE ParseMembers(_, _)
ParseValue(toks) ==
    IF Head(toks) = "\"" THEN ParseString(Tail(toks), <<>>)
    ELSE IF Head(toks) = "[" THEN ParseItems(Tail(toks), <<>>)
    ELSE IF Head(toks) = "{" THEN ParseMembers(Tail(toks), <<>>)
    ELSE LET n == CHOOSE n \in {f.size : f \in Files} : ToString(n) = Head(toks)
         IN [v |-> Py("int", n), rest |-> Tail(toks)]

ParseItems(toks, acc) ==
    IF Head(toks) = "]" THEN [v |-> Py("list", acc), rest |-> Tail(toks)]
    ELSE IF Head(toks) = "," THEN ParseItems(Tail(toks), acc)
    ELSE LET item == ParseValue(toks)
         IN ParseItems(item.rest, Append(acc, item.v))

ParseMembers(toks, acc) ==
    IF Head(toks) = "}" THEN [v |-> Py("dict", acc), rest |-> Tail(toks)]
    ELSE IF Head(toks) = "," THEN ParseMembers(Tail(toks), acc)
    ELSE LET key == ParseString(Tail(toks), <<>>)
             value == ParseValue(Tail(key.rest))
         IN ParseMembers(value.rest, Append(acc, <<key.v.v[1], value.v>>))

\* A buggy feedback_ui that returns the result after writing it as well.
WrittenReturnsResult == ret

\* return None, after the result was written
WrittenReturns == <<>>

\* feedback_ui after ui.run(): with an output file the result is written
\* there, unless the directory or the file cannot be made and os.makedirs
\* or open raises, and None is returned; without, or with a result that is
\* an empty dict, the result is returned
FeedbackUiFinish ==
    /\ pc = "returned"
    /\ IF TruthyPath(output_file) /\ PyResult(ret[1]).v # <<>>
       THEN \/ /\ file_written' = <<JsonDump(PyResult(ret[1]))>>
               /\ ui_ret' = WrittenReturns
               /\ pc' = "done"
            \/ /\ pc' = "ui_raised"
               /\ UNCHANGED <<file_written, ui_ret>>
       ELSE /\ ui_ret' = ret
            /\ pc' = "done"
            /\ UNCHANGED file_written
    /\ UNCHANGED <<platform, kt, command, run_label, process, timer_active,
                   feedback_result, ret>>
    /\ UNCHANGED <<themeVars, topVars, i18nVars, output_file>>
    /\ UNCHANGED <<logVars, osVars, editVars, edits>>

(***************************************************************************)
(* The methods of I18NManager, called on the manager in use.               *)
(***************************************************************************)
\* what the preferences leave alone
prefFrame ==
    /\ UNCHANGED dialogVars
    /\ UNCHANGED <<logVars, osVars, editVars, edits, outVars>>

\* I18NManager(default_language): a new manager comes into use
NewManager(default_language) ==
    /\ current_language' = <<StartLanguage(default_language)>>
    /\ i18n_ret' = Outcome("I18NManager", <<default_language>>, "", <<>>)
    /\ UNCHANGED <<saved_language, language_set>>
    /\ UNCHANGED <<texts, system_language, themeVars, topVars>>
    /\ prefFrame

\* A buggy set_language that does not save the preference.
set_language_unsaved(language) ==
    IF language \in Languages
    THEN /\ current_language' = <<language>>
         /\ language_set' = <<language>>
         /\ UNCHANGED saved_language
    ELSE UNCHANGED <<current_language, saved_language, language_set>>

\* I18NManager.set_language
set_language(language) ==
    IF language \in Languages
    THEN /\ current_language' = <<language>>
         /\ saved_language' = <<language>>
         /\ language_set' = <<language>>
    ELSE UNCHANGED <<current_language, saved_language, language_set>>

SetLanguage(language) ==
    /\ current_language # <<>>
    /\ set_language(language)
    /\ i18n_ret' = Outcome("set_language", <<language>>, "", <<>>)
    /\ UNCHANGED <<texts, system_language, themeVars, topVars>>
    /\ prefFrame

\* I18NManager.get_current_language
GetCurrentLanguage ==
    /\ current_language # <<>>
    /\ i18n_ret' = Outcome("get_current_language", <<>>, "", current_language)
    /\ UNCHANGED <<current_language, saved_language, language_set>>
    /\ UNCHANGED <<texts, system_language, themeVars, topVars>>
    /\ prefFrame

\* A buggy toggle_language that returns the language it found.
toggle_language_returns_old ==
    LET new_lang == IF current_language[1] = "zh" THEN "en" ELSE "zh"
    IN /\ set_language(new_lang)
       /\ i18n_ret' = Outcome("toggle_language", <<>>, "", current_language)

\* I18NManager.toggle_language
toggle_language ==
    LET new_lang == IF current_language[1] = "zh" THEN "en" ELSE "zh"
    IN /\ set_language(new_lang)
       /\ i18n_ret' = Outcome("toggle_language", <<>>, "", <<new_lang>>)

ToggleLanguageCall ==
    /\ current_language # <<>>
    /\ toggle_language
    /\ UNCHANGED <<texts, system_language, themeVars, topVars>>
    /\ prefFrame

\* text.format(**kwargs): KeyError when the text names a field kwargs lacks
FormatRaises(t, kwargs) ==
    \E i \in DOMAIN t : FieldName(t[i]) \notin DOMAIN kwargs \cup {""}

Format(t, kwargs) ==
    [i \in DOMAIN t |->
        IF FieldName(t[i]) = "" THEN t[i] ELSE kwargs[FieldName(t[i])]]

\* self.texts[category][language][key], formatted if there are kwargs: the
\* text, KeyError for a missing category, language, key or field, TypeError
\* for a key into a list
TryText(category, language, key, kwargs) ==
    LET arg == <<category, key, kwargs>>
    IN IF category \notin DOMAIN texts
       THEN Outcome("get_text", arg, "KeyError", <<>>)
       ELSE IF language \notin DOMAIN texts[category]
       THEN Outcome("get_text", arg, "KeyError", <<>>)
       ELSE LET entry == texts[category][language]
            IN IF entry.kind = "list"
               THEN Outcome("get_text", arg, "TypeError", <<>>)
               ELSE IF key \notin DOMAIN entry.items
               THEN Outcome("get_text", arg, "KeyError", <<>>)
               ELSE IF DOMAIN kwargs = {}
               THEN Outcome("get_text", arg, "", entry.items[key])
               ELSE IF FormatRaises(entry.items[key], kwargs)
               THEN Outcome("get_text", arg, "KeyError", <<>>)
               ELSE Outcome("get_text", arg, "", Format(entry.items[key], kwargs))

\* I18NManager.get_text: the current language, on KeyError English, on
\* KeyError again the bracketed name
get_text(category, key, kwargs) ==
    LET first == TryText(category, current_language[1], key, kwargs)
        second == TryText(category, "en", key, kwargs)
    IN IF first.raised # "KeyError" THEN first
       ELSE IF second.raised # "KeyError" THEN second
       ELSE Outcome("get_text", <<category, key, kwargs>>, "",
                     <<"[" \o category \o "." \o key \o "]">>)

GetText(category, key, kwargs) ==
    /\ current_language # <<>>
    /\ i18n_ret' = get_text(category, key, kwargs)
    /\ UNCHANGED <<current_language, saved_language, language_set>>
    /\ UNCHANGED <<texts, system_language, themeVars, topVars>>
    /\ prefFrame

(***************************************************************************)
(* The theme, stay-on-top and language buttons of the window, the theme    *)
(* timer, and the system's theme, which the user can change at any time.   *)
(***************************************************************************)
\* A buggy cycle that leaves light out.
ToggledModeWithoutLight(mode) ==
    IF mode = "auto" THEN "dark" ELSE "auto"

\* toggle_theme: the mode that follows
ToggledMode(mode) ==
    IF mode = "auto" THEN "dark"
    ELSE IF mode = "dark" THEN "light"
    ELSE "auto"

\* FeedbackUI.toggle_theme
ToggleTheme ==
    LET mode == ToggledMode(theme_mode)
    IN /\ UIReady
       /\ theme_mode' = mode
       /\ is_dark_theme' = <<_get_effective_theme(mode)>>
       /\ palette' = Palette(_get_effective_theme(mode))
       /\ saved_theme' = <<mode>>
       /\ theme_timer' = (mode = "auto")
       /\ UNCHANGED <<system_dark, topVars, i18nVars>>
       /\ prefFrame

\* FeedbackUI._check_system_theme_change, on a tick of the theme timer
CheckSystemThemeChange ==
    /\ UIReady
    /\ theme_timer
    /\ IF theme_mode = "auto" /\ <<_get_system_theme_is_dark>> # is_dark_theme
       THEN /\ is_dark_theme' = <<_get_system_theme_is_dark>>
            /\ palette' = Palette(_get_system_theme_is_dark)
       ELSE UNCHANGED <<is_dark_theme, palette>>
    /\ UNCHANGED <<theme_mode, theme_timer, system_dark, saved_theme>>
    /\ UNCHANGED <<topVars, i18nVars>>
    /\ prefFrame

\* The user switches the system's theme.
SystemThemeChanges ==
    /\ pc = "exec"
    /\ system_dark' = ~system_dark
    /\ UNCHANGED <<theme_mode, is_dark_theme, palette, theme_timer, saved_theme>>
    /\ UNCHANGED <<topVars, i18nVars>>
    /\ prefFrame

\* FeedbackUI.toggle_stay_on_top with _apply_stay_on_top
ToggleStayOnTop ==
    /\ UIReady
    /\ stay_on_top' = <<~stay_on_top[1]>>
    /\ top_hint' = ~stay_on_top[1]
    /\ saved_top' = <<~stay_on_top[1]>>
    /\ UNCHANGED <<themeVars, i18nVars>>
    /\ prefFrame

\* FeedbackUI.toggle_language: the manager toggles, the button and the
\* banner show the new language
ToggleLanguage ==
    /\ UIReady
    /\ toggle_language
    /\ UNCHANGED <<texts, system_language>>
    /\ UNCHANGED <<themeVars, topVars>>
    /\ prefFrame

(***************************************************************************)
(* The command's processes and the two reader threads.                     *)
(***************************************************************************)
\* run() has not ended: the model follows the processes up to its return.
InRun == pc \notin {"ctor_raised", "returned", "run_raised"}

\* A process of a command starts another one.
Fork(p) ==
    /\ InRun
    /\ pstate[p] = "running"
    /\ FreePids # {}
    /\ LET q == MinOf(FreePids)
       IN /\ pstate' = [pstate EXCEPT ![q] = "running"]
          /\ ppid' = [ppid EXCEPT ![q] = p]
          /\ tree' = [tree EXCEPT ![q] = tree[p]]
    /\ UNCHANGED <<rc, pipe, rd, written, pipe_reader>>
    /\ UNCHANGED <<uiVars, logVars, editVars, edits>>

\* A process ends on its own; the command itself ends with an exit code.
Exit(p, code) ==
    /\ InRun
    /\ pstate[p] = "running"
    /\ pstate' = DiedState(p)
    /\ ppid' = DiedPpid(p)
    /\ rc' = IF ppid[p] = 0 THEN [rc EXCEPT ![p] = code] ELSE rc
    /\ ppid[p] # 0 => code = 0
    /\ UNCHANGED <<tree, pipe, rd, written, pipe_reader>>
    /\ UNCHANGED <<uiVars, logVars, editVars, edits>>

\* A dead descendant is waited for by its parent or by init.  The command
\* itself is the dialog's child: only Popen.poll() in _check_process_status
\* waits for it.
Reaped(p) ==
    /\ InRun
    /\ pstate[p] = "zombie"
    /\ ppid[p] # 0
    /\ pstate' = [pstate EXCEPT ![p] = "gone"]
    /\ UNCHANGED <<ppid, tree, rc, pipe, rd, written, pipe_reader>>
    /\ UNCHANGED <<uiVars, logVars, editVars, edits>>

\* A process writes a line to the stdout or stderr pipe of its command.
WriteLine(p, s) ==
    /\ InRun
    /\ pstate[p] = "running"
    /\ Len(written) < MaxLines
    /\ written' = Append(written, [root |-> tree[p], stream |-> s])
    /\ pipe' = [pipe EXCEPT ![tree[p]][s] = Append(@, Len(written) + 1)]
    /\ UNCHANGED <<pstate, ppid, tree, rc, rd, pipe_reader>>
    /\ UNCHANGED <<uiVars, logVars, editVars, edits>>

\* read_output: pipe.readline() returned a line and the thread emits it
ReadOutput(r, s) ==
    /\ InRun
    /\ rd[r][s] = "reading"
    /\ pipe[r][s] # <<>>
    /\ pipe' = [pipe EXCEPT ![r][s] = Tail(@)]
    /\ pipe_reader' = "reader"
    /\ Emit(Head(pipe[r][s]), "reader")
    /\ UNCHANGED <<pstate, ppid, tree, rc, rd, written>>
    /\ UNCHANGED <<uiVars, editVars, edits>>

\* read_output: pipe.readline() returned "" (every writer is gone) and the
\* thread ends
ReadEof(r, s) ==
    /\ InRun
    /\ rd[r][s] = "reading"
    /\ pipe[r][s] = <<>>
    /\ \A p \in Pids : tree[p] = r => pstate[p] # "running"
    /\ rd' = [rd EXCEPT ![r][s] = "done"]
    /\ pipe_reader' = "reader"
    /\ UNCHANGED <<pstate, ppid, tree, rc, pipe, written>>
    /\ UNCHANGED <<uiVars, logVars, editVars, edits>>

(***************************************************************************)
(* FeedbackTextEdit: the text box and its attachments.                     *)
(***************************************************************************)
\* mimetypes.guess_type(path) names an image type
_is_image_file(f) == f.mime \in {"image/png", "image/jpeg"}
\* the extension is one of text_extensions
_is_text_file(f) == f.ext \in text_extensions

FileExt(format) == IF format = "JPEG" THEN "jpg" ELSE "png"
FormatLower(format) == IF format = "JPEG" THEN "jpeg" ELSE "png"

ImageEntry(filename, format, content) ==
    [filename |-> filename,
     data |-> "data:image/" \o FormatLower(format) \o ";base64," \o content]

TextFileEntry(f) ==
    [filename |-> f.stem \o "." \o f.ext,
     content |-> "content of " \o f.stem,
     path |-> "/abs/" \o f.stem \o "." \o f.ext,
     size |-> f.size,
     encoding |-> "utf-8"]

\* the placeholders "[<image>: name]" and "[<code file>: name]" put in the text
ImagePlaceholder(filename) == "[image: " \o filename \o "]"
TextFilePlaceholder(filename) == "[file: " \o filename \o "]"

\* the placeholder on a line of its own, at the cursor
PlaceholderText(pos, placeholder) ==
    (IF PositionInBlock(text, pos) > 0 THEN <<"\n">> ELSE <<>>)
        \o <<placeholder, "\n">>

\* parent._show_error_message(key) and return
Reject(key) ==
    /\ error_shown' = key
    /\ UNCHANGED <<text, images, text_files>>

AcceptImage(entry, pos) ==
    LET ins == PlaceholderText(pos, ImagePlaceholder(entry.filename))
    IN /\ Len(text) + Len(ins) <= MaxText
       /\ images' = Append(images, entry)
       /\ text' = InsertAt(text, pos, ins)
       /\ error_shown' = ""
       /\ UNCHANGED text_files

\* A buggy limit check that lets a sixth image in.
ImagesFullOffByOne == Len(images) > MaxImages

\* len(self.images) >= 5
ImagesFull == Len(images) >= MaxImages

\* len(self.text_files) >= 5
TextFilesFull == Len(text_files) >= MaxTextFiles

\* A buggy size check that turns a file of exactly the limit away.
ImageTooLargeInclusive(f) == f.size >= ImageSizeLimit

\* file_size > 10 * 1024 * 1024
ImageTooLarge(f) == f.size > ImageSizeLimit

\* file_size > 5 * 1024 * 1024
TextTooLarge(f) == f.size > TextSizeLimit

\* FeedbackTextEdit._handle_image_paste
_handle_image_paste(format, pos) ==
    IF ImagesFull
    THEN Reject("max_images_reached")
    ELSE AcceptImage(
            ImageEntry("clipboard_image_" \o ToString(Len(images) + 1)
                           \o "." \o FileExt(format),
                       format, "clipboard"),
            pos)

\* FeedbackTextEdit._handle_image_file
_handle_image_file(f, pos) ==
    IF ImagesFull
    THEN Reject("max_images_reached")
    ELSE IF ImageTooLarge(f)
    THEN Reject("image_too_large")
    ELSE IF ~_is_image_file(f)
    THEN Reject("invalid_image_format")
    ELSE AcceptImage(
            ImageEntry(f.stem \o "." \o FileExt(f.format), f.format, f.stem),
            pos)

\* FeedbackTextEdit._handle_text_file
_handle_text_file(f, pos) ==
    IF TextFilesFull
    THEN Reject("max_text_files_reached")
    ELSE IF TextTooLarge(f)
    THEN Reject("text_file_too_large")
    ELSE LET entry == TextFileEntry(f)
             ins == PlaceholderText(pos, TextFilePlaceholder(entry.filename))
         IN /\ Len(text) + Len(ins) <= MaxText
            /\ text_files' = Append(text_files, entry)
            /\ text' = InsertAt(text, pos, ins)
            /\ error_shown' = ""
            /\ UNCHANGED images

\* what every user operation on the text box leaves alone, and its count
EditFrame ==
    /\ UIReady
    /\ edits < MaxEdits
    /\ edits' = edits + 1
    /\ UNCHANGED auto_submit
    /\ UNCHANGED <<uiVars, logVars, osVars>>

\* The user types a character at the cursor.
TypeText(tok, pos) ==
    /\ EditFrame
    /\ Len(text) < MaxText
    /\ text' = InsertAt(text, pos, <<tok>>)
    /\ error_shown' = ""
    /\ UNCHANGED <<images, text_files>>

\* The user selects all the text and deletes it.
DeleteText ==
    /\ EditFrame
    /\ text # <<>>
    /\ text' = <<>>
    /\ error_shown' = ""
    /\ UNCHANGED <<images, text_files>>

\* An image is pasted from the clipboard: insertFromMimeData
PasteImage(format, pos) ==
    /\ EditFrame
    /\ _handle_image_paste(format, pos)

\* A file is dropped on the text box: dropEvent.  A file that is neither an
\* image nor a text file goes to QTextEdit's own drop handling, which may
\* insert its URL as text.
DropFile(f, pos) ==
    /\ EditFrame
    /\ IF _is_image_file(f)
       THEN _handle_image_file(f, pos)
       ELSE IF _is_text_file(f)
       THEN _handle_text_file(f, pos)
       ELSE /\ \E ins \in {<<>>, <<"file:///" \o f.stem \o "." \o f.ext>>} :
                 /\ Len(text) + Len(ins) <= MaxText
                 /\ text' = InsertAt(text, pos, ins)
            /\ error_shown' = ""
            /\ UNCHANGED <<images, text_files>>

\* The Add File button, and the file picked in the dialog: _add_file
AddFile(f, pos) ==
    /\ EditFrame
    /\ IF ImagesFull /\ TextFilesFull
       THEN Reject("max_files_reached")
       ELSE IF _is_image_file(f)
       THEN IF ImagesFull
            THEN Reject("max_images_reached")
            ELSE _handle_image_file(f, pos)
       ELSE IF _is_text_file(f)
       THEN IF TextFilesFull
            THEN Reject("max_text_files_reached")
            ELSE _handle_text_file(f, pos)
       ELSE Reject("unsupported_file_type")

\* The Add File button, and the dialog is cancelled
AddFileCancelled ==
    /\ EditFrame
    /\ ~(ImagesFull /\ TextFilesFull)
    /\ error_shown' = ""
    /\ UNCHANGED <<text, images, text_files>>

\* list.remove(x): without the first element equal to x
RemoveFirst(list, x) ==
    LET k == MinOf({i \in 1..Len(list) : list[i] = x})
    IN SubSeq(list, 1, k - 1) \o SubSeq(list, k + 1, Len(list))

\* the text box without a placeholder, as both _remove_ methods leave it
WithoutPlaceholder(placeholder) ==
    Strip(CollapseNewlines(RemoveToken(text, placeholder)))

\* A double click on the preview of image i: _remove_image
RemoveImage(i) ==
    /\ EditFrame
    /\ i \in 1..Len(images)
    /\ images' = RemoveFirst(images, images[i])
    /\ text' = WithoutPlaceholder(ImagePlaceholder(images[i].filename))
    /\ error_shown' = ""
    /\ UNCHANGED text_files

\* A double click on the preview of text file j: _remove_text_file
RemoveTextFile(j) ==
    /\ EditFrame
    /\ j \in 1..Len(text_files)
    /\ text_files' = RemoveFirst(text_files, text_files[j])
    /\ text' = WithoutPlaceholder(TextFilePlaceholder(text_files[j].filename))
    /\ error_shown' = ""
    /\ UNCHANGED images

Positions == 0..Len(text)

Edit ==
    \/ \E tok \in TypedTokens, pos \in Positions : TypeText(tok, pos)
    \/ DeleteText
    \/ \E format \in ClipboardFormats, pos \in Positions : PasteImage(format, pos)
    \/ \E f \in Files, pos \in Positions : DropFile(f, pos)
    \/ \E f \in Files, pos \in Positions : AddFile(f, pos)
    \/ AddFileCancelled
    \/ \E i \in 1..MaxImages : RemoveImage(i)
    \/ \E j \in 1..MaxTextFiles : RemoveTextFile(j)
    \/ \E reply \in QuickReplies : QuickReplyClicked(reply)
    \/ ToggleAutoSubmit


(***************************************************************************)
(* The dialog's window: the constructor, run() and the handlers of the     *)
(* event loop.                                                             *)
(***************************************************************************)
Window ==
    \/ \E execute_automatically \in BOOLEAN : Construct(execute_automatically)
    \/ RunShow
    \/ RunCommand
    \/ StopDone
    \/ CheckProcessStatus
    \/ DeliverAppendLog
    \/ ClearLogs
    \/ \E via \in {"button", "ctrl_enter"} : SubmitFeedback(via)
    \/ CloseWindow
    \/ CloseDone
    \/ ExecReturns
    \/ RunAfterExec
    \/ RunReturn

Lifecycle ==
    \/ \E p \in Pids : Fork(p)
    \/ \E p \in Pids, code \in ExitCodes : Exit(p, code)

Reaping == \E p \in Pids : Reaped(p)

Writers == \E p \in Pids, s \in Streams : WriteLine(p, s)

Reading == \E r \in Pids, s \in Streams : ReadOutput(r, s)

Ending == \E r \in Pids, s \in Streams : ReadEof(r, s)

(***************************************************************************)
(* The whole program.                                                      *)
(***************************************************************************)
Next ==
    \/ Window \/ KillTree \/ Lifecycle \/ Reaping \/ Writers \/ Reading \/ Ending
    \/ Edit \/ FeedbackUiFinish
    \/ ToggleTheme \/ CheckSystemThemeChange \/ SystemThemeChanges
    \/ ToggleStayOnTop \/ ToggleLanguage

Spec == Init /\ [][Next]_vars

(***************************************************************************)
(* The dialog and its command, the text box left alone; the reader threads *)
(* are followed up to their last line.                                     *)
(***************************************************************************)
NextCommand == Window \/ KillTree \/ Lifecycle \/ Writers \/ Reading

SpecCommand == Init /\ [][NextCommand]_vars

(***************************************************************************)
(* The same under the scheduling the program runs on: the event loop       *)
(* dispatches every queued signal and timer tick, a call in progress       *)
(* continues, and a reader thread whose pipe holds a line gets to read it. *)
(* Nothing obliges the user or the command to act.                         *)
(***************************************************************************)
FairCommand ==
    /\ WF_vars(RunShow)
    /\ WF_vars(KillTree)
    /\ WF_vars(StopDone)
    /\ WF_vars(CloseDone)
    /\ WF_vars(CheckProcessStatus)
    /\ WF_vars(DeliverAppendLog)
    /\ \A r \in Pids, s \in Streams : WF_vars(ReadOutput(r, s))

FairSpec == SpecCommand /\ FairCommand

(***************************************************************************)
(* The reader threads to their end, for commands that start no other      *)
(* process and end when they are killed.                                   *)
(***************************************************************************)
NextReaders == Window \/ KillSingle \/ Writers \/ Reading \/ Ending

SpecReaders == Init /\ [][NextReaders]_vars

(***************************************************************************)
(* The dialog with its text box, running commands that start no other      *)
(* process, write to stdout and end when they are killed; the reader       *)
(* threads are followed up to their last line.                             *)
(***************************************************************************)
WritersStdout == \E p \in Pids : WriteLine(p, "stdout")

NextResult == Window \/ KillSingle \/ WritersStdout \/ Reading \/ Edit

SpecResult == Init /\ [][NextResult]_vars

(***************************************************************************)
(* feedback_ui from the construction of the dialog to its return, with and *)
(* without an output file: the user types, pastes an image and drops a     *)
(* text file at the end of the text, and runs commands as above.           *)
(***************************************************************************)
InitOutput ==
    /\ InitDialog
    /\ NoWindowPrefs
    /\ FreshSettings
    /\ output_file \in {<<>>, <<"">>, <<"out/result.json">>}

Compose ==
    \/ \E tok \in TypedTokens : TypeText(tok, Len(text))
    \/ \E format \in ClipboardFormats : PasteImage(format, Len(text))
    \/ \E f \in {g \in Files : g.stem = "n"} : DropFile(f, Len(text))

SpecOutput ==
    /\ InitOutput
    /\ [][\/ Window \/ KillSingle \/ WritersStdout \/ Reading
          \/ Compose \/ FeedbackUiFinish]_vars

(***************************************************************************)
(* The I18NManager on its own: managers are constructed, one after the     *)
(* other, over the preference the earlier ones saved, and their methods    *)
(* are called.  The saved preference is one set_language can have left.    *)
(***************************************************************************)
InitI18N ==
    /\ InitDialog
    /\ platform = "darwin"
    /\ command = ""
    /\ NoWindowPrefs
    /\ system_dark = FALSE
    /\ saved_theme = <<>>
    /\ saved_top = <<>>
    /\ output_file = <<>>
    /\ texts \in TextsInputs
    /\ saved_language \in {<<>>, <<"zh">>, <<"en">>}
    /\ system_language \in Languages

SpecI18N ==
    /\ InitI18N
    /\ [][\/ \E default_language \in {"auto", "zh", "en"} :
                NewManager(default_language)
          \/ \E language \in {"zh", "en", "fr", "auto"} : SetLanguage(language)
          \/ GetCurrentLanguage
          \/ ToggleLanguageCall
          \/ \E category \in {"messages", "quick_replies", "tooltips"},
                key \in {"process_exited", "config_saved", "unknown"},
                kwargs \in {<<>>, [code |-> "1"]} :
                GetText(category, key, kwargs)]_vars

(***************************************************************************)
(* The window and its preferences: it is constructed over what earlier     *)
(* sessions saved, on a light or dark system, the user presses the theme,  *)
(* stay-on-top and language buttons and closes it.  No command is run.     *)
(* With no theme mode saved the window starts in auto, as it does with     *)
(* auto saved.                                                             *)
(***************************************************************************)
InitSettings ==
    /\ InitDialog
    /\ command = ""
    /\ NoWindowPrefs
    /\ system_dark \in BOOLEAN
    /\ saved_theme \in {<<>>, <<"dark">>, <<"light">>}
    /\ saved_top \in {<<>>, <<FALSE>>, <<TRUE>>}
    /\ texts = CompleteTexts
    /\ saved_language \in {<<>>, <<"zh">>, <<"en">>}
    /\ system_language \in Languages
    /\ output_file = <<>>

SpecSettings ==
    /\ InitSettings
    /\ [][\/ \E execute_automatically \in BOOLEAN :
                Construct(execute_automatically)
          \/ RunShow
          \/ ToggleTheme \/ CheckSystemThemeChange \/ SystemThemeChanges
          \/ ToggleStayOnTop \/ ToggleLanguage
          \/ CloseWindow
          \/ ExecReturns
          \/ RunAfterExec]_vars

(***************************************************************************)
(* The text box on its own.  The window is open on macOS, no command was   *)
(* run, and the user has pasted images and picked text files before and    *)
(* then deleted the text: the lists hold none, one less than the limit or  *)
(* the limit.                                                              *)
(***************************************************************************)
PastedImages(k) ==
    [i \in 1..k |->
        ImageEntry("clipboard_image_" \o ToString(i) \o ".jpg", "JPEG", "clipboard")]

PickedTextFiles(k) ==
    [i \in 1..k |-> TextFileEntry(CHOOSE f \in Files : f.stem = "n")]

InitTextEdit ==
    /\ platform = "darwin"
    /\ pc = "exec"
    /\ kt = KtIdle
    /\ command \in Commands
    /\ run_label = "run"
    /\ process = 0
    /\ timer_active = FALSE
    /\ log_buffer = <<>>
    /\ sigq = <<>>
    /\ feedback_result = <<>>
    /\ ret = <<>>
    /\ pstate = [p \in Pids |-> "unborn"]
    /\ ppid = [p \in Pids |-> 0]
    /\ tree = [p \in Pids |-> 0]
    /\ rc = [p \in Pids |-> 0]
    /\ pipe = [p \in Pids |-> [s \in Streams |-> <<>>]]
    /\ rd = [p \in Pids |-> [s \in Streams |-> "none"]]
    /\ written = <<>>
    /\ text = <<>>
    /\ \E k \in {0, MaxImages - 1, MaxImages} : images = PastedImages(k)
    /\ \E k \in {0, MaxTextFiles - 1, MaxTextFiles} : text_files = PickedTextFiles(k)
    /\ auto_submit = TRUE
    /\ error_shown = ""
    /\ edits = 0
    /\ log_writer = "none"
    /\ pipe_reader = "none"
    /\ delivered = [l \in 1..MaxLines |-> 0]
    /\ exit_msgs = [p \in Pids |-> 0]
    \* the preferences of a window constructed on a first start
    /\ FreshSettings
    /\ theme_mode = "auto"
    /\ is_dark_theme = <<FALSE>>
    /\ palette = "light"
    /\ theme_timer = TRUE
    /\ stay_on_top = <<FALSE>>
    /\ top_hint = FALSE
    /\ current_language = <<"en">>
    /\ language_set = <<>>
    /\ i18n_ret = NoCall
    /\ output_file = <<>>
    /\ file_written = <<>>
    /\ ui_ret = <<>>

SpecTextEdit == InitTextEdit /\ [][Edit]_vars

(***************************************************************************)
(* kill_tree on its own: a caller hands it the Popen object of a command   *)
(* whose tree is in any state a tree can be in.  The command is pid 1; it  *)
(* is running, dead, or dead and waited for.  The other processes descend  *)
(* from it; a process whose parent died belongs to init.  While kill_tree  *)
(* runs, processes of the tree end and init waits for its dead children.   *)
(***************************************************************************)
ProcessTables ==
    {t \in [state : [Pids -> {"unborn", "running", "zombie", "gone"}],
            parent : [Pids -> 0..INITPID]] :
        /\ t.state[1] # "unborn"
        /\ t.parent[1] = 0
        /\ \A q \in Pids \ {1} :
              IF t.state[q] = "unborn"
              THEN /\ t.parent[q] = 0
                   /\ \A r \in Pids : r > q => t.state[r] = "unborn"
              ELSE \/ t.parent[q] = INITPID
                   \/ /\ t.parent[q] \in 1..(q - 1)
                      /\ t.state[t.parent[q]] = "running"}

InitKillTree ==
    /\ platform = "darwin"
    /\ pc = "kill_tree"
    /\ kt = KtCall("direct", 1)
    /\ command = "make"
    /\ run_label = "stop"
    /\ process = 0
    /\ timer_active = FALSE
    /\ log_buffer = <<>>
    /\ sigq = <<>>
    /\ feedback_result = <<>>
    /\ ret = <<>>
    /\ \E t \in ProcessTables :
          /\ pstate = t.state
          /\ ppid = t.parent
          /\ tree = [p \in Pids |-> IF t.state[p] = "unborn" THEN 0 ELSE 1]
    /\ \E code \in ExitCodes :
          /\ pstate[1] = "running" => code = 0
          /\ rc = [p \in Pids |-> IF p = 1 THEN code ELSE 0]
    /\ pipe = [p \in Pids |-> [s \in Streams |-> <<>>]]
    /\ rd = [p \in Pids |-> [s \in Streams |-> "none"]]
    /\ written = <<>>
    /\ text = <<>>
    /\ images = <<>>
    /\ text_files = <<>>
    /\ auto_submit = TRUE
    /\ error_shown = ""
    /\ edits = 0
    /\ log_writer = "none"
    /\ pipe_reader = "none"
    /\ delivered = [l \in 1..MaxLines |-> 0]
    /\ exit_msgs = [p \in Pids |-> 0]
    /\ NoWindowPrefs
    /\ FreshSettings
    /\ output_file = <<>>

NextKillTree ==
    \/ KillTree
    \/ \E p \in Pids, code \in ExitCodes : Exit(p, code)
    \/ Reaping

SpecKillTree == InitKillTree /\ [][NextKillTree]_vars

(***************************************************************************)
(* Properties.                                                             *)
(***************************************************************************)

\* C1: a submit (Send, Ctrl+Enter, a quick reply with auto-submit) records the
\* text box content of that moment stripped of leading and trailing
\* whitespace, the attachment lists of that moment, each in the order its
\* entries were inserted, and the concatenation of the log buffer of that
\* moment; the record never changes afterwards, whatever is appended to the
\* log buffer, and run() returns it.
C1_SubmittedResultReturned ==
    /\ [][feedback_result = <<>> /\ feedback_result' # <<>>
            => feedback_result' = <<[logs |-> Join(log_buffer),
                                     interactive_feedback |-> Strip(text'),
                                     images |-> images',
                                     text_files |-> text_files']>>]_vars
    /\ [][feedback_result # <<>> => feedback_result' = feedback_result]_vars
    /\ [][(Len(images') > Len(images)
              => SubSeq(images', 1, Len(images)) = images)
           /\ (Len(text_files') > Len(text_files)
              => SubSeq(text_files', 1, Len(text_files)) = text_files)]_vars
    /\ [][pc' = "returned" /\ feedback_result' # <<>> => ret' = feedback_result']_vars

\* run() has returned a submitted result with two images in it, the text was
\* stripped of something, and an output line was appended to the log buffer
\* after the submit.
C1_Witness ==
    /\ pc = "returned"
    /\ feedback_result # <<>>
    /\ ret = feedback_result
    /\ Len(ret[1].images) = 2
    /\ ret[1].images[1] # ret[1].images[2]
    /\ ret[1].interactive_feedback # text
    /\ ret[1].logs # <<>>
    /\ log_buffer # <<>>
    /\ log_buffer[Len(log_buffer)] = LineText(1)
    /\ ret[1].logs # Join(log_buffer)

\* C2: when run() returns and nothing was submitted, the result holds an
\* empty interactive_feedback, no image and no text file, and the
\* concatenation of the log buffer, which has not changed since the event
\* loop ended.
C2_ClosedWithoutSubmit ==
    /\ [][pc' = "returned" /\ feedback_result' = <<>>
            => ret' = <<[logs |-> Join(log_buffer'),
                         interactive_feedback |-> <<>>,
                         images |-> <<>>,
                         text_files |-> <<>>]>>]_vars
    /\ [][(pc \in {"after_exec", "returned"}) => log_buffer' = log_buffer]_vars

\* run() has returned from a window closed without a submit while the text
\* box held text, an image was attached and the log buffer held something.
C2_Witness ==
    /\ pc = "returned"
    /\ feedback_result = <<>>
    /\ text # <<>>
    /\ images # <<>>
    /\ ret[1].logs # <<>>
    /\ ret[1].images = <<>>
    /\ ret[1].interactive_feedback = <<>>

\* C3: when run() has returned, no process of a command the dialog started
\* is running.
C3_NoProcessLeftRunning ==
    pc = "returned" => \A p \in Pids : pstate[p] # "running"

\* C4: kill_tree does not raise, and when it is done no process of the tree
\* it was called for is running.
C4_BestEffortKill ==
    /\ kt.pc # "raised"
    /\ kt.pc = "done" => \A p \in Pids : tree[p] = kt.parent => pstate[p] # "running"

\* C5: the log buffer and the log widget are modified by the UI thread only
\* and the pipes are read by the reader threads only; a step that takes a
\* line off a pipe emits it and does nothing else, a step that modifies the
\* log buffer reads no pipe, and the event loop hands over one queued line at
\* a time.
C5_ReadersOnlyReadAndEmit ==
    [][/\ log_writer' \in {"none", "ui"}
       /\ pipe_reader' \in {"none", "reader"}
       /\ (pipe' # pipe /\ written' = written)
            => (/\ log_buffer' = log_buffer
                /\ uiVars' = uiVars
                /\ \E r \in Pids, s \in Streams :
                      /\ pipe[r][s] # <<>>
                      /\ pipe' = [pipe EXCEPT ![r][s] = Tail(@)]
                      /\ sigq' = Append(sigq, Head(pipe[r][s])))
       /\ (log_buffer' # log_buffer) => (pipe' = pipe /\ log_writer' = "ui")
       /\ (Len(sigq') < Len(sigq))
            => (/\ sigq' = Tail(sigq)
                /\ log_buffer' = Append(log_buffer, LineText(Head(sigq))))]_vars

\* A reader thread has read a line and the UI thread has appended it while
\* the window is open.
C5_Witness ==
    /\ pc = "exec"
    /\ log_writer = "ui"
    /\ pipe_reader = "reader"
    /\ \E l \in 1..MaxLines : delivered[l] = 1 /\ LineText(l) = log_buffer[Len(log_buffer)]

\* C6: every line written is in one place: in its pipe, in the queue of the
\* UI thread, or handed to _append_log, once; and a line written is handed
\* to _append_log unless the window closes.
C6_EveryLineAppendedOnce ==
    /\ [][\A l \in 1..Len(written') :
            LET w == written'[l]
                inpipe == {i \in DOMAIN pipe'[w.root][w.stream] :
                             pipe'[w.root][w.stream][i] = l}
                queued == {i \in DOMAIN sigq' : sigq'[i] = l}
            IN Cardinality(inpipe) + Cardinality(queued) + delivered'[l] = 1]_vars
    /\ \A l \in 1..MaxLines :
          (Len(written) >= l)
              ~> (delivered[l] = 1 \/ pc \in {"closed", "after_exec", "returned"})

\* A line written to stderr has been handed to _append_log while the window
\* is open.
C6_Witness ==
    /\ pc = "exec"
    /\ \E l \in 1..Len(written) : written[l].stream = "stderr" /\ delivered[l] = 1

\* C7 as stated: a held command that has ended on its own while the window
\* is open gets its 'process exited' message, with the Run label back and the
\* handle cleared, unless the window closes.
C7_ExitAlwaysReported ==
    \A p \in Pids :
        (pc = "exec" /\ process = p /\ pstate[p] = "zombie" /\ rc[p] \in ExitCodes)
            ~> (\/ exit_msgs[p] = 1 /\ run_label = "run" /\ process = 0
                \/ pc # "exec")

\* C7, amended: a held command that has ended on its own while the window is
\* open gets its 'process exited' message unless the user presses Stop or
\* closes the window before the status check runs; the message is appended at
\* most once per process, by a step that appends it with the exit code, sets
\* the Run label and clears the handle.
C7_ExitReportedUnlessStopped ==
    /\ [][\A p \in Pids :
            /\ exit_msgs'[p] <= 1
            /\ (exit_msgs'[p] # exit_msgs[p])
                 => (/\ process = p
                     /\ pstate[p] = "zombie"
                     /\ log_buffer' =
                          Append(log_buffer,
                                 Message("process_exited", ToString(rc[p])))
                     /\ run_label' = "run"
                     /\ process' = 0)]_vars
    /\ \A p \in Pids :
          (pc = "exec" /\ process = p /\ pstate[p] = "zombie" /\ rc[p] \in ExitCodes)
              ~> (\/ exit_msgs[p] = 1 /\ run_label = "run" /\ process = 0
                  \/ kt.caller = "stop"
                  \/ pc # "exec")

\* The exit of a command that ended with code 1 has been reported while the
\* window is open.
C7_Witness ==
    /\ pc = "exec"
    /\ process = 0
    /\ run_label = "run"
    /\ \E p \in Pids :
          /\ exit_msgs[p] = 1
          /\ rc[p] = 1
          /\ log_buffer # <<>>
          /\ log_buffer[Len(log_buffer)] = Message("process_exited", "1")

\* C8: the result run() returns has the fields FeedbackResult declares.
C8_DeclaredFields ==
    pc = "returned"
        => DOMAIN ret[1] = {"command_logs", "interactive_feedback", "images", "text_files"}

\* C9: the image list and the text file list never hold more than 5 entries.
C9_AtMostFiveOfEach ==
    Len(images) <= 5 /\ Len(text_files) <= 5

\* A paste into a text box that had four images was accepted and the next
\* one was turned away.
C9_Witness ==
    /\ Len(images) = 5
    /\ edits = 2
    /\ text # <<>>
    /\ error_shown = "max_images_reached"

C11_ResultWrittenOrReturned ==
    (pc = "done") =>
        IF TruthyPath(output_file)
        THEN /\ file_written # <<>>
             /\ ParseValue(file_written[1]).v = PyResult(ret[1])
             /\ ui_ret = <<>>
        ELSE /\ file_written = <<>>
             /\ ui_ret = ret

\* feedback_ui has written a submitted result with a log line, a reply and a
\* text file to the output file.
C11_Witness ==
    /\ pc = "done"
    /\ output_file = <<"out/result.json">>
    /\ file_written # <<>>
    /\ ui_ret = <<>>
    /\ feedback_result # <<>>
    /\ \E i \in DOMAIN ret[1].logs : ret[1].logs[i] = "\n"
    /\ ret[1].interactive_feedback # <<>>
    /\ ret[1].text_files # <<>>

\* C12: whatever way the manager in use was constructed and whatever was set
\* or toggled since, get_current_language returns "zh" or "en".
C12_LanguageIsZhOrEn ==
    (i18n_ret.call = "get_current_language") =>
        (i18n_ret.raised = "" /\ i18n_ret.value \in {<<"zh">>, <<"en">>})

\* get_current_language has answered for a manager that detected a Chinese
\* system, with nothing saved and nothing set.
C12_Witness ==
    /\ i18n_ret.call = "get_current_language"
    /\ i18n_ret.value = <<"zh">>
    /\ saved_language = <<>>
    /\ language_set = <<>>
    /\ system_language = "zh"

\* C13: get_text returns the text of the current language when the category
\* has that language and the language has the key, else the English text when
\* there is one, else "[category.key]", the text as it is or with the fields
\* that kwargs names filled in; and it raises nothing.
C13_TextOrEnglishOrBracketedKey ==
    (i18n_ret.call = "get_text") =>
        LET category == i18n_ret.arg[1]
            key == i18n_ret.arg[2]
            kwargs == i18n_ret.arg[3]
            HasText(language) ==
                /\ category \in DOMAIN texts
                /\ language \in DOMAIN texts[category]
                /\ texts[category][language].kind = "dict"
                /\ key \in DOMAIN texts[category][language].items
            TextOf(language) == texts[category][language].items[key]
            Filled(t) ==
                [i \in DOMAIN t |->
                    IF FieldName(t[i]) \in DOMAIN kwargs
                    THEN kwargs[FieldName(t[i])]
                    ELSE t[i]]
        IN /\ i18n_ret.raised = ""
           /\ IF HasText(i18n_ret.before[1])
              THEN i18n_ret.value \in {TextOf(i18n_ret.before[1]),
                                       Filled(TextOf(i18n_ret.before[1]))}
              ELSE IF HasText("en")
              THEN i18n_ret.value \in {TextOf("en"), Filled(TextOf("en"))}
              ELSE i18n_ret.value = <<"[" \o category \o "." \o key \o "]">>

\* C14: a toggle changes the current language to the other of "zh" and "en",
\* returns the new current language and leaves it saved as the preference;
\* a toggle that follows a toggle restores the language the first one found.
C14_ToggleSwitchesAndSaves ==
    [][ToggleLanguageCall =>
          (/\ current_language'[1] \in Languages
           /\ current_language' # current_language
           /\ i18n_ret'.value = current_language'
           /\ saved_language' = current_language'
           /\ (i18n_ret.call = "toggle_language")
                 => (current_language' = i18n_ret.before))]_vars

\* A toggle has switched a manager from Chinese to English, over a saved
\* Chinese preference.
C14_Witness ==
    /\ i18n_ret.call = "toggle_language"
    /\ i18n_ret.before = <<"zh">>
    /\ i18n_ret.value = <<"en">>
    /\ current_language = <<"en">>
    /\ saved_language = <<"en">>

\* C15: a manager constructed with "auto" after a language was set starts in
\* the language set last, whatever the system's language; set_language with a
\* code other than "zh" and "en" leaves the current language and the saved
\* preference as they are.
C15_SavedLanguageWins ==
    /\ [][(NewManager("auto") /\ language_set # <<>>)
             => (current_language' = language_set)]_vars
    /\ [][\A language \in {"fr", "auto"} :
             SetLanguage(language)
                => UNCHANGED <<current_language, saved_language>>]_vars

\* A manager constructed with "auto" on an English system, after Chinese was
\* set and while a manager in English was in use, has started in Chinese.
C15_Witness ==
    /\ i18n_ret.call = "I18NManager"
    /\ i18n_ret.arg = <<"auto">>
    /\ i18n_ret.before = <<"en">>
    /\ language_set = <<"zh">>
    /\ system_language = "en"
    /\ current_language = <<"zh">>

\* C16: a toggle takes auto to dark, dark to light and light to auto and
\* saves the new mode under theme/mode; two more toggles would bring the mode
\* back; after a toggle to dark the palette applied is the dark one and after
\* a toggle to light the light one.
C16_ThemeCycles ==
    [][ToggleTheme =>
          (/\ (theme_mode = "auto") => (theme_mode' = "dark")
           /\ (theme_mode = "dark") => (theme_mode' = "light")
           /\ (theme_mode = "light") => (theme_mode' = "auto")
           /\ theme_mode \in {"auto", "dark", "light"}
           /\ saved_theme' = <<theme_mode'>>
           /\ ToggledMode(ToggledMode(theme_mode')) = theme_mode
           /\ (theme_mode' = "dark") => (palette' = "dark")
           /\ (theme_mode' = "light") => (palette' = "light"))]_vars

\* A toggle has taken the window from light to auto on a dark system and
\* has saved auto.
C16_Witness ==
    /\ pc = "exec"
    /\ theme_mode = "auto"
    /\ saved_theme = <<"auto">>
    /\ palette = "dark"
    /\ system_dark
    /\ theme_timer

\* C18: on Windows and Linux the constructor completes and the window has
\* the stay-on-top hint exactly when the saved stay_on_top preference is true.
C18_HintFollowsSavedPreference ==
    (platform \in {"win32", "linux"} /\ pc # "new") =>
        (/\ pc # "ctor_raised"
         /\ top_hint = SettingsValue(saved_top, FALSE))

\* C17: while the command that Run started last is held, the log buffer holds
\* no output line of a command started before it.
C17_NoLineOfEarlierCommand ==
    (process # 0) =>
        \A i \in DOMAIN log_buffer, l \in 1..Len(written) :
            (log_buffer[i] = LineText(l)) => (written[l].root = process)

====
